---- MODULE Spec2Model ----
(***************************************************************************)
(* State-machine model of mcp-utility-tools (index-v2): the TTL cache, the *)
(* retry tracker, the batch runner, the rate limiter and the periodic      *)
(* sweep, all living in one Node.js process (run-to-completion handlers,   *)
(* one shared clock).                                                      *)
(*                                                                         *)
(* Strings are sequences of symbols, so that the template literal          *)
(* `${namespace}:${key}` is modelled as real concatenation.  Time is in    *)
(* milliseconds since the model starts; the code only ever compares        *)
(* differences of Date.now() values.                                       *)
(***************************************************************************)
EXTENDS Integers, Sequences, FiniteSets, TLC

VARIABLES
    now,            \* Date.now(), ms
    cache,          \* const cache = new Map<string, CacheEntry>()
    cres,           \* the reply of the last cache tool call / sweep
    lastPut,        \* history: per cache key, the last explicit write or removal
    nputs,          \* number of cache_put calls so far (bounded)
    nticks,         \* number of clock advances so far (bounded)
    retryMetadata,  \* const retryMetadata = new Map<string, {...}>()
    rres,           \* the reply of the last retry_operation call
    retryHist,      \* history: per operation id, what its checks have returned
    ncalls,         \* number of batch_operation calls after the first (bounded)
    bargs,          \* arguments of the batch_operation call
    bpc,            \* where the batch_operation handler is
    queue,          \* const queue = [...operations]
    inProgress,     \* keys of the inProgress Map, in insertion order
    results,        \* const results: any[], in push order
    promise,        \* per operation id: state of its Promise.race([work, timeout])
    workAt,         \* per operation id: when its simulated work ends (-1: not running)
    timeoutAt,      \* per operation id: when its timeout timer fires (-1: not armed)
    jobs,           \* the microtask queue
    race,           \* state of the promise awaited by the scheduling loop
    bout,           \* the payload batch_operation returned
    rateLimits,     \* const rateLimits = new Map<string, { count, resetAt }>()
    lres,           \* the reply of the last rate_limit_check call
    rateHist,       \* history: per resource, what its checks have been answered
    nrate,          \* number of rate_limit_check calls so far (bounded)
    legacy          \* the retry_with_backoff handler of the legacy server

cacheVars == <<cache, cres, lastPut, nputs>>
retryVars == <<retryMetadata, rres, retryHist>>
batchVars == <<ncalls, bargs, bpc, queue, inProgress, results, promise, workAt,
               timeoutAt, jobs, race, bout>>
rateVars == <<rateLimits, lres, rateHist, nrate>>
vars == <<now, nticks, cacheVars, retryVars, batchVars, rateVars, legacy>>

----------------------------------------------------------------------------
(* Bounds *)

MaxPuts == 2
MaxTicks == 2
MaxRetryTicks == 6
MaxChecks == 5
MaxPairTicks == 3
MaxRateChecks == 5
MaxCalls == 1
MaxIdleTicks == 1
MaxRateTicks == 4

(* Sampled inputs *)

\* documented range of ttl_seconds
MinTtlSeconds == 1
MaxTtlSeconds == 86400
\* documented range of concurrency
MinConcurrency == 1
MaxConcurrency == 20

Colon == ":"
DefaultNamespace == <<"default">>

\* keys and namespaces a caller may pass; some contain ':' themselves
Keys == { <<"k">>, <<"k", ":", "k">> }
NamespaceStrings == { <<"x">>, <<"x", ":", "k">> }
Values == { <<"a">>, <<"b">> }
\* ttl_seconds is not validated by the handler: 0 is accepted like 1 or 2
TtlSeconds == { 0, 1, 2 }
CacheTickMs == { 1000 }

OperationIds == { "op1", "op2" }
\* the id that is checked with every combination of arguments
DeepIds == { "op1" }
\* max_retries and initial_delay_ms: the defaults (3, 1000) and the schema's
\* extremes that matter for the backoff (7 attempts, 60000 ms)
MaxRetriesArgs == { 3, 7 }
InitialDelayArgs == { 1000, 60000 }
DefaultMaxRetries == 3
DefaultInitialDelayMs == 1000
RetryHorizonMs == 3600000
RetryTickMs == { 1000, 3600001 }
\* two ids checked side by side, with the default arguments
PairMaxRetriesArgs == { 3 }
PairInitialDelayArgs == { 1000 }
\* arguments of the legacy retry_with_backoff
LegacyMaxRetriesArgs == { 1, 3 }
LegacyInitialDelayArgs == { 100, 1000 }
LegacyMaxDelayArgs == { 1500, 30000 }
\* samples of Math.random(), in tenths
RandomTenths == { 0, 5, 9 }
\* whether the wrapped tool's execution succeeds or throws
ToolOutcomes == { "ok", "throws" }
\* retry checks made while a batch runs: the smallest delay the schema allows
BesideMaxRetriesArgs == { 3 }
BesideInitialDelayArgs == { 100 }
\* an idle stretch longer than the sweep's horizon
IdleTickMs == { 3600001 }

\* batch inputs: operations with unique ids; "a" and "c" carry the same data
BatchOp(id, data) == [id |-> id, type |-> <<"t">>, data |-> data]
BatchIds == { "a", "b", "c" }
OperationLists ==
    { <<BatchOp("a", "d1"), BatchOp("b", "d2"), BatchOp("c", "d1")>>,
      <<BatchOp("b", "d2"), BatchOp("a", "d1")>> }
\* concurrency is not validated either: 0 is accepted
ConcurrencyArgs == { 0, 1, 2 }
\* timeout_ms is not validated: 500 is accepted like the default 30000
TimeoutMsArgs == { 500, 30000 }
\* cache_ttl_seconds has no minimum in the schema
CacheTtlArgs == { 0, 300 }
\* samples of Math.random() * 1000
WorkMs == { 100, 900 }

Resources == { "r1" }
\* max_requests and window_seconds carry no minimum in the tool's schema
MaxRequestsArgs == { 0, 1, 2 }
WindowSecondsArgs == { 1, 2 }
RateTickMs == { 500 }

\* the optional `namespace` argument: given (a string) or omitted (undefined)
Omitted == [given |-> FALSE, str |-> <<>>]
Given(s) == [given |-> TRUE, str |-> s]
NamespaceArgs == { Given(s) : s \in NamespaceStrings } \cup { Omitted }

----------------------------------------------------------------------------
(* Helpers *)

\* parameter default `namespace = "default"`: applies only to undefined
NamespaceOrDefault(namespace) ==
    IF namespace.given THEN namespace.str ELSE DefaultNamespace

getCacheKey_noNamespace(key, namespace) ==
    DefaultNamespace \o <<Colon>> \o key

getCacheKey(key, namespace) ==
    NamespaceOrDefault(namespace) \o <<Colon>> \o key

\* String.prototype.startsWith
startsWith(s, prefix) ==
    /\ Len(prefix) =< Len(s)
    /\ SubSeq(s, 1, Len(prefix)) = prefix

Has(m, k) == k \in DOMAIN m

\* Map.prototype.set / delete on a function with a finite domain
MapSet(m, k, e) == [x \in DOMAIN m \cup {k} |-> IF x = k THEN e ELSE m[x]]
MapDelete(m, ks) == [x \in DOMAIN m \ ks |-> m[x]]

EmptyMap == [x \in {} |-> 0]

NoValue == <<>>

\* history record of an explicit write (a key explicitly removed has none)
\*   over: the write replaced an entry that was still stored
\*   gone: a cache_get has asked for the key at or after its expiry, so a
\*         server whose sweep never ran would have dropped the entry as well
PutRec(key, ns, value, ttl, over) ==
    [key |-> key, namespace |-> ns, value |-> value, at |-> now, ttl |-> ttl,
     over |-> over, gone |-> FALSE]

\* the history after a cache_get of cacheKey
NoteGet(h, cacheKey) ==
    IF Has(h, cacheKey) /\ now >= h[cacheKey].at + h[cacheKey].ttl * 1000
    THEN [h EXCEPT ![cacheKey].gone = TRUE]
    ELSE h

\* Math.pow(2, n) for the small non-negative integers that occur
RECURSIVE Pow2(_)
Pow2(n) == IF n =< 0 THEN 1 ELSE 2 * Pow2(n - 1)

NoRetryReply ==
    [op |-> "none", operation_id |-> "", status |-> "", attempts |-> 0,
     wait_ms |-> 0, max_retries |-> 0, initial_delay_ms |-> 0]

\* history of one operation id
\*   execs     execute_attempt replies handed out so far
\*   lastN     attempt number of the latest execute_attempt (0: none)
\*   lastAt    time of the latest execute_attempt
\*   maxUsed   the max_retries of every check so far (0: no check yet, -1: mixed)
\*   defaults  number of checks so far if all used max_retries 3, initial delay
\*             1000 and should_execute (-1: some check did not)
\*   swept     the sweep has removed the id's entry at least once
\*   exceeded  some check of the id has returned max_retries_exceeded
\*   exceededMax  the largest max_retries a check of the id's current entry
\*             was refused with (0: none since the entry was created)
NoHist == [execs |-> 0, lastN |-> 0, lastAt |-> 0, maxUsed |-> 0,
           defaults |-> 0, swept |-> FALSE, exceeded |-> FALSE,
           exceededMax |-> 0]

NoBatchArgs ==
    [operations |-> <<>>, concurrency |-> 0, timeout_ms |-> 0,
     continue_on_error |-> TRUE, use_cache |-> FALSE, cache_ttl_seconds |-> 0]

NoBatchOutput ==
    [total_operations |-> 0, successful |-> 0, failed |-> 0, results |-> <<>>]

NoRateReply ==
    [op |-> "none", resource |-> "", allowed |-> FALSE, current_count |-> 0,
     max_requests |-> 0, remaining |-> 0, reset_in_seconds |-> 0,
     window_seconds |-> 0, increment |-> FALSE]

\* history of one resource
\*   windows   windows created for the resource so far
\*   run       increment = true checks answered in the current window, if every
\*             check of the window was one and all passed the same max_requests
\*             (-1: some check of the window was not)
\*   runMax    the max_requests of that run
\*   prevFull  the window replaced last had count >= the max_requests of the
\*             check that replaced it, and a positive count
\*   argsMax   the max_requests of every check so far (-1: no check yet, -2: mixed)
\*   argsWin   the window_seconds of every check so far (-1: no check yet, -2: mixed)
\*   grants    times of the increment = true checks answered allowed = true
NoRateHist == [windows |-> 0, run |-> 0, runMax |-> 0, prevFull |-> FALSE,
               argsMax |-> -1, argsWin |-> -1, grants |-> <<>>, opened |-> 0]

\* retry_with_backoff before it is called: its arguments, the loop variables
\* attempt and delay, and a history of its executions and waits
NoLegacyCall ==
    [pc |-> "idle", max_retries |-> 0, initial_delay_ms |-> 0, max_delay_ms |-> 0,
     jitter |-> FALSE, attempt |-> 0, delay |-> 0, executions |-> 0, waits |-> <<>>]

CacheReply(op, key, ns) ==
    [op |-> op, key |-> key, namespace |-> ns,
     found |-> FALSE, value |-> NoValue, reason |-> "",
     existed |-> FALSE, cleared |-> 0, before |-> -1]

----------------------------------------------------------------------------
(* Initial state: empty maps, as constructed at module load *)

Init ==
    /\ now = 0
    /\ cache = EmptyMap
    /\ cres = CacheReply("none", <<>>, <<>>)
    /\ lastPut = EmptyMap
    /\ nputs = 0
    /\ nticks = 0
    /\ ncalls = 0
    /\ retryMetadata = EmptyMap
    /\ rres = NoRetryReply
    /\ retryHist = [id \in OperationIds |-> NoHist]
    /\ bargs = NoBatchArgs
    /\ bpc = "idle"
    /\ queue = <<>>
    /\ inProgress = <<>>
    /\ results = <<>>
    /\ promise = [id \in BatchIds |-> "none"]
    /\ workAt = [id \in BatchIds |-> -1]
    /\ timeoutAt = [id \in BatchIds |-> -1]
    /\ jobs = <<>>
    /\ race = "none"
    /\ bout = NoBatchOutput
    /\ rateLimits = EmptyMap
    /\ lres = NoRateReply
    /\ rateHist = [r \in Resources |-> NoRateHist]
    /\ nrate = 0
    /\ legacy = NoLegacyCall

----------------------------------------------------------------------------
(* Cache tool handlers *)

IsExpired_strict(entry) == entry.expiresAt < now

\* if (entry.expiresAt <= Date.now())
IsExpired(entry) == entry.expiresAt =< now

cache_get(key, namespace) ==
    LET cacheKey == getCacheKey(key, namespace)
        reply == CacheReply("cache_get", key, NamespaceOrDefault(namespace))
    IN  /\ IF ~Has(cache, cacheKey)
           THEN /\ cres' = reply
                /\ cache' = cache
           ELSE IF IsExpired(cache[cacheKey])
           THEN /\ cache' = MapDelete(cache, {cacheKey})
                /\ cres' = [reply EXCEPT !.reason = "expired"]
           ELSE /\ cache' = cache
                /\ cres' = [reply EXCEPT !.found = TRUE,
                                         !.value = cache[cacheKey].value]
        /\ lastPut' = NoteGet(lastPut, cacheKey)
        /\ UNCHANGED <<now, nticks, legacy, nputs, retryVars, batchVars, rateVars>>

cache_put(key, value, ttl_seconds, namespace) ==
    LET cacheKey == getCacheKey(key, namespace)
        expiresAt == now + (ttl_seconds * 1000)
        ns == NamespaceOrDefault(namespace)
    IN  /\ nputs < MaxPuts
        /\ nputs' = nputs + 1
        /\ cache' = MapSet(cache, cacheKey, [value |-> value, expiresAt |-> expiresAt])
        /\ lastPut' = MapSet(lastPut, cacheKey, PutRec(key, ns, value, ttl_seconds, Has(cache, cacheKey)))
        /\ cres' = CacheReply("cache_put", key, ns)
        /\ UNCHANGED <<now, nticks, legacy, retryVars, batchVars, rateVars>>

cache_delete(key, namespace) ==
    LET cacheKey == getCacheKey(key, namespace)
        existed == Has(cache, cacheKey)
    IN  /\ cache' = MapDelete(cache, {cacheKey})
        /\ lastPut' = MapDelete(lastPut, {cacheKey})
        /\ cres' = [CacheReply("cache_delete", key, NamespaceOrDefault(namespace))
                      EXCEPT !.existed = existed]
        /\ UNCHANGED <<now, nticks, legacy, nputs, retryVars, batchVars, rateVars>>

\* history kept in a cache_clear reply: the cleared_entries of the call right
\* before it, if that was a cache_clear with the same argument (-1 otherwise)
ClearedBefore(ns) ==
    IF cres.op = "cache_clear" /\ cres.namespace = ns THEN cres.cleared ELSE -1

\* a clear that stops after the first matching key
cache_clear_first(namespace) ==
    IF namespace.given /\ namespace.str # <<>>
    THEN LET prefix == namespace.str \o <<Colon>>
             all == { k \in DOMAIN cache : startsWith(k, prefix) }
             hit == IF all = {} THEN {} ELSE { CHOOSE k \in all : TRUE }
         IN  /\ cache' = MapDelete(cache, hit)
             /\ lastPut' = MapDelete(lastPut, hit)
             /\ cres' = [CacheReply("cache_clear", <<>>, namespace.str)
                           EXCEPT !.cleared = Cardinality(hit),
                                  !.before = ClearedBefore(namespace.str)]
             /\ UNCHANGED <<now, nticks, legacy, nputs, retryVars, batchVars, rateVars>>
    ELSE /\ cache' = EmptyMap
         /\ lastPut' = EmptyMap
         /\ cres' = [CacheReply("cache_clear", <<>>, <<>>)
                       EXCEPT !.cleared = Cardinality(DOMAIN cache),
                              !.before = ClearedBefore(<<>>)]
         /\ UNCHANGED <<now, nticks, legacy, nputs, retryVars, batchVars, rateVars>>

\* `if (namespace)`: an omitted or empty namespace clears everything
cache_clear(namespace) ==
    IF namespace.given /\ namespace.str # <<>>
    THEN LET prefix == namespace.str \o <<Colon>>
             hit == { k \in DOMAIN cache : startsWith(k, prefix) }
         IN  /\ cache' = MapDelete(cache, hit)
             /\ lastPut' = MapDelete(lastPut, { k \in DOMAIN lastPut : startsWith(k, prefix) })
             /\ cres' = [CacheReply("cache_clear", <<>>, namespace.str)
                           EXCEPT !.cleared = Cardinality(hit),
                                  !.before = ClearedBefore(namespace.str)]
             /\ UNCHANGED <<now, nticks, legacy, nputs, retryVars, batchVars, rateVars>>
    ELSE /\ cache' = EmptyMap
         /\ lastPut' = EmptyMap
         /\ cres' = [CacheReply("cache_clear", <<>>, <<>>)
                       EXCEPT !.cleared = Cardinality(DOMAIN cache),
                              !.before = ClearedBefore(<<>>)]
         /\ UNCHANGED <<now, nticks, legacy, nputs, retryVars, batchVars, rateVars>>

----------------------------------------------------------------------------
(* Retry tracker *)

NewMetadata == [attempts |-> 0, lastAttempt |-> 0, success |-> FALSE]

RetriesExhausted_gt(metadata, max_retries) == metadata.attempts > max_retries

RetriesExhausted_eq(metadata, max_retries) == metadata.attempts = max_retries

\* if (metadata.attempts >= max_retries)
RetriesExhausted(metadata, max_retries) == metadata.attempts >= max_retries

RequiredDelay_flat(initial_delay_ms, attempts) == initial_delay_ms

\* initial_delay_ms * Math.pow(2, metadata.attempts)
RequiredDelay(initial_delay_ms, attempts) == initial_delay_ms * Pow2(attempts)

MustWait_inclusive(metadata, timeSinceLastAttempt, requiredDelay) ==
    metadata.attempts > 0 /\ timeSinceLastAttempt =< requiredDelay

\* if (metadata.attempts > 0 && timeSinceLastAttempt < requiredDelay)
MustWait(metadata, timeSinceLastAttempt, requiredDelay) ==
    metadata.attempts > 0 /\ timeSinceLastAttempt < requiredDelay

RecordAttempt_noTime(m, operation_id, metadata) ==
    MapSet(m, operation_id, [metadata EXCEPT !.attempts = @ + 1])

RecordAttempt_noCount(m, operation_id, metadata) ==
    MapSet(m, operation_id, [metadata EXCEPT !.lastAttempt = now])

\* metadata.attempts += 1; metadata.lastAttempt = Date.now(); retryMetadata.set(...)
RecordAttempt(m, operation_id, metadata) ==
    MapSet(m, operation_id, [metadata EXCEPT !.attempts = @ + 1,
                                             !.lastAttempt = now])

NoteExceeded(h, max_retries) ==
    [h EXCEPT !.exceeded = TRUE,
              !.exceededMax = IF max_retries > @ THEN max_retries ELSE @]

NoteCheck(h, max_retries, initial_delay_ms, should_execute) ==
    [h EXCEPT
       !.maxUsed = IF h.maxUsed = 0 \/ h.maxUsed = max_retries
                   THEN max_retries ELSE -1,
       !.defaults = IF /\ h.defaults >= 0
                       /\ max_retries = DefaultMaxRetries
                       /\ initial_delay_ms = DefaultInitialDelayMs
                       /\ should_execute
                    THEN h.defaults + 1 ELSE -1]

retry_operation(operation_id, max_retries, initial_delay_ms, should_execute) ==
    LET metadata == IF Has(retryMetadata, operation_id)
                    THEN retryMetadata[operation_id] ELSE NewMetadata
        timeSinceLastAttempt == now - metadata.lastAttempt
        requiredDelay == RequiredDelay(initial_delay_ms, metadata.attempts)
        reply == [NoRetryReply EXCEPT !.op = "retry_operation",
                                      !.operation_id = operation_id,
                                      !.attempts = metadata.attempts,
                                      !.max_retries = max_retries,
                                      !.initial_delay_ms = initial_delay_ms]
        noted == NoteCheck(retryHist[operation_id], max_retries,
                           initial_delay_ms, should_execute)
    IN  /\ noted.defaults =< MaxChecks
        /\ IF metadata.success
           THEN /\ rres' = [reply EXCEPT !.status = "already_succeeded"]
                /\ retryMetadata' = retryMetadata
                /\ retryHist' = [retryHist EXCEPT ![operation_id] = noted]
           ELSE IF RetriesExhausted(metadata, max_retries)
           THEN /\ rres' = [reply EXCEPT !.status = "max_retries_exceeded"]
                /\ retryMetadata' = retryMetadata
                /\ retryHist' = [retryHist EXCEPT ![operation_id] =
                                    NoteExceeded(noted, max_retries)]
           ELSE IF MustWait(metadata, timeSinceLastAttempt, requiredDelay)
           THEN /\ rres' = [reply EXCEPT !.status = "retry_delayed",
                                         !.wait_ms = requiredDelay - timeSinceLastAttempt]
                /\ retryMetadata' = retryMetadata
                /\ retryHist' = [retryHist EXCEPT ![operation_id] = noted]
           ELSE IF ~should_execute
           THEN /\ rres' = [reply EXCEPT !.status = "ready_to_execute"]
                /\ retryMetadata' = retryMetadata
                /\ retryHist' = [retryHist EXCEPT ![operation_id] = noted]
           ELSE /\ retryMetadata' = RecordAttempt(retryMetadata, operation_id, metadata)
                /\ rres' = [reply EXCEPT !.status = "execute_attempt",
                                         !.attempts = metadata.attempts + 1]
                /\ retryHist' = [retryHist EXCEPT ![operation_id] =
                                    [noted EXCEPT !.execs = @ + 1,
                                                  !.lastN = metadata.attempts + 1,
                                                  !.lastAt = now]]
        /\ UNCHANGED <<now, nticks, legacy, cacheVars, batchVars, rateVars>>

RetryOperation ==
    \E id \in DeepIds, m \in MaxRetriesArgs, d \in InitialDelayArgs,
       x \in BOOLEAN : retry_operation(id, m, d, x)

RetryOperationPair ==
    \E id \in OperationIds, m \in PairMaxRetriesArgs, d \in PairInitialDelayArgs,
       x \in BOOLEAN : retry_operation(id, m, d, x)

----------------------------------------------------------------------------
(* Batch runner.  The handler is an async function: between two awaits it  *)
(* runs to completion ("loop"); while it is suspended ("await") or after   *)
(* it has settled, timers fire one at a time, each followed by a full      *)
(* drain of the microtask queue.                                           *)

\* JSON.stringify(op.data)
JSONstringify(data) == <<"{", data, "}">>

BatchCacheKey_noData(op) == <<"batch">> \o <<Colon>> \o op.type

\* `batch:${op.type}:${JSON.stringify(op.data)}`
BatchCacheKey(op) == <<"batch">> \o <<Colon>> \o op.type \o <<Colon>> \o JSONstringify(op.data)

\* the object built by the simulated work (processed_at left out)
WorkResult(op) == <<op.id>> \o op.type \o <<op.data>>

OpOf(id) == CHOOSE op \in { bargs.operations[i] : i \in DOMAIN bargs.operations } :
                op.id = id

SeqRemove(s, x) == SelectSeq(s, LAMBDA y : y # x)

CanStart_offByOne(q, size, concurrency) == Len(q) > 0 /\ size =< concurrency

\* inner loop condition: queue.length > 0 && inProgress.size < concurrency
CanStart(q, size, concurrency) == Len(q) > 0 /\ size < concurrency

MoreToDo_queueOnly(q, size) == Len(q) > 0

\* outer loop condition: queue.length > 0 || inProgress.size > 0
MoreToDo(q, size) == Len(q) > 0 \/ size > 0

\* deadlines of all pending timers
Deadlines == { workAt[id] : id \in { i \in BatchIds : workAt[i] >= 0 } }
             \cup { timeoutAt[id] : id \in { i \in BatchIds : timeoutAt[i] >= 0 } }

\* reactions queued when the race promise of `id` settles: the .then() chain
\* registered at start, then the scheduling loop's Promise.race, if it waits
SettleJobs(id) ==
    <<[kind |-> "then", id |-> id]>>
    \o (IF bpc = "await" THEN <<[kind |-> "race", id |-> id]>> ELSE <<>>)

BatchCall ==
    /\ bpc = "idle"
    /\ \E ops \in OperationLists, c \in ConcurrencyArgs, t \in TimeoutMsArgs,
          coe \in BOOLEAN, uc \in BOOLEAN, ttl \in CacheTtlArgs :
         /\ bargs' = [operations |-> ops, concurrency |-> c, timeout_ms |-> t,
                      continue_on_error |-> coe, use_cache |-> uc,
                      cache_ttl_seconds |-> ttl]
         /\ queue' = ops
    /\ results' = <<>>
    /\ inProgress' = <<>>
    /\ bpc' = "loop"
    /\ UNCHANGED <<now, nticks, legacy, cacheVars, retryVars, rateVars, ncalls, promise, workAt, timeoutAt,
                   jobs, race, bout>>

\* a later batch_operation call, made once the earlier call has ended and
\* its timers have fired; its queue, results and promises are new objects
BatchCallAgain ==
    /\ bpc \in {"returned", "failed"}
    /\ jobs = <<>>
    /\ Deadlines = {}
    /\ ncalls < MaxCalls
    /\ ncalls' = ncalls + 1
    /\ \E ops \in OperationLists, c \in ConcurrencyArgs, t \in TimeoutMsArgs,
          coe \in BOOLEAN, uc \in BOOLEAN, ttl \in CacheTtlArgs :
         /\ bargs' = [operations |-> ops, concurrency |-> c, timeout_ms |-> t,
                      continue_on_error |-> coe, use_cache |-> uc,
                      cache_ttl_seconds |-> ttl]
         /\ queue' = ops
    /\ results' = <<>>
    /\ inProgress' = <<>>
    /\ promise' = [id \in BatchIds |-> "none"]
    /\ race' = "none"
    /\ bpc' = "loop"
    /\ UNCHANGED <<now, nticks, legacy, cacheVars, retryVars, rateVars, workAt, timeoutAt,
                   jobs, bout>>

CachedLive_inclusive(cached) == cached.expiresAt >= now

\* cached && cached.expiresAt > Date.now()
CachedLive(cached) == cached.expiresAt > now

\* one pass of the inner while loop
StartOp ==
    /\ bpc = "loop"
    /\ CanStart(queue, Len(inProgress), bargs.concurrency)
    /\ LET op == Head(queue)
           cacheKey == BatchCacheKey(op)
       IN  /\ queue' = Tail(queue)
           /\ IF /\ bargs.use_cache
                 /\ Has(cache, cacheKey)
                 /\ CachedLive(cache[cacheKey])
              THEN /\ results' = Append(results,
                                    [id |-> op.id, success |-> TRUE, cached |-> TRUE,
                                     result |-> cache[cacheKey].value])
                   /\ UNCHANGED <<inProgress, promise, workAt, timeoutAt>>
              ELSE /\ \E w \in WorkMs : workAt' = [workAt EXCEPT ![op.id] = now + w]
                   /\ timeoutAt' = [timeoutAt EXCEPT ![op.id] = now + bargs.timeout_ms]
                   /\ promise' = [promise EXCEPT ![op.id] = "pending"]
                   /\ inProgress' = Append(inProgress, op.id)
                   /\ results' = results
    /\ UNCHANGED <<now, nticks, legacy, cacheVars, retryVars, rateVars, ncalls, bargs, bpc, jobs, race, bout>>

\* await Promise.race(inProgress.values()); with concurrency >= 1 the map is
\* not empty whenever the inner loop stops with work left
AwaitRace ==
    /\ bpc = "loop"
    /\ MoreToDo(queue, Len(inProgress))
    /\ ~CanStart(queue, Len(inProgress), bargs.concurrency)
    /\ Len(inProgress) > 0
    /\ race' = "pending"
    /\ bpc' = "await"
    /\ jobs' = jobs \o [i \in 1..Len(SelectSeq(inProgress, LAMBDA id : promise[id] # "pending"))
                          |-> [kind |-> "race",
                               id |-> SelectSeq(inProgress,
                                                LAMBDA id : promise[id] # "pending")[i]]]
    /\ UNCHANGED <<now, nticks, legacy, cacheVars, retryVars, rateVars, ncalls, bargs, queue, inProgress,
                   results, promise, workAt, timeoutAt, bout>>

\* a pass of the outer loop that can neither start nor await anything goes
\* straight into the next pass: with nothing in flight and concurrency < 1 the
\* handler circles without ever yielding, and no timer or request runs again
LoopIdle ==
    /\ bpc \in {"loop", "spin"}
    /\ MoreToDo(queue, Len(inProgress))
    /\ ~CanStart(queue, Len(inProgress), bargs.concurrency)
    /\ Len(inProgress) = 0
    /\ bpc' = "spin"
    /\ UNCHANGED <<now, nticks, legacy, cacheVars, retryVars, rateVars, ncalls, bargs, queue,
                   inProgress, results, promise, workAt, timeoutAt, jobs, race, bout>>

\* results.find(r => r.id === op.id); undefined is serialised as null
NullResult == [id |-> "null", success |-> FALSE, cached |-> FALSE, result |-> <<>>]
Find(rs, id) ==
    IF \E i \in DOMAIN rs : rs[i].id = id
    THEN rs[CHOOSE i \in DOMAIN rs : rs[i].id = id /\ \A j \in 1..(i - 1) : rs[j].id # id]
    ELSE NullResult

SortedResults_unsorted(operations, rs) == rs

\* operations.map(op => results.find(...))
SortedResults(operations, rs) ==
    [i \in DOMAIN operations |-> Find(rs, operations[i].id)]

BatchReturn ==
    /\ bpc = "loop"
    /\ ~MoreToDo(queue, Len(inProgress))
    /\ bpc' = "returned"
    /\ bout' = [total_operations |-> Len(bargs.operations),
                successful |-> Len(SelectSeq(results, LAMBDA r : r.success)),
                failed |-> Len(SelectSeq(results, LAMBDA r : ~r.success)),
                results |-> SortedResults(bargs.operations, results)]
    /\ UNCHANGED <<now, nticks, legacy, cacheVars, retryVars, rateVars, ncalls, bargs, queue, inProgress,
                   results, promise, workAt, timeoutAt, jobs, race>>

\* the simulated work of `id` ends: it caches its result (if asked to) and
\* resolves; the race promise follows unless the timeout already rejected it
WorkFires ==
    /\ bpc \in {"await", "returned", "failed"}
    /\ jobs = <<>>
    /\ \E id \in BatchIds :
         /\ workAt[id] >= 0
         /\ \A d \in Deadlines : workAt[id] =< d
         /\ now' = workAt[id]
         /\ workAt' = [workAt EXCEPT ![id] = -1]
         /\ IF bargs.use_cache
            THEN /\ cache' = MapSet(cache, BatchCacheKey(OpOf(id)),
                                    [value |-> WorkResult(OpOf(id)),
                                     expiresAt |-> now' + (bargs.cache_ttl_seconds * 1000)])
                 /\ lastPut' = MapSet(lastPut, BatchCacheKey(OpOf(id)),
                                      [key |-> <<>>, namespace |-> <<>>,
                                       value |-> WorkResult(OpOf(id)), at |-> now',
                                       ttl |-> bargs.cache_ttl_seconds,
                                       over |-> Has(cache, BatchCacheKey(OpOf(id))),
                                       gone |-> FALSE])
            ELSE UNCHANGED <<cache, lastPut>>
         /\ IF promise[id] = "pending"
            THEN /\ promise' = [promise EXCEPT ![id] = "fulfilled"]
                 /\ jobs' = SettleJobs(id)
            ELSE UNCHANGED <<promise, jobs>>
    /\ UNCHANGED <<nticks, legacy, cres, nputs, retryVars, rateVars, ncalls, bargs, bpc, queue, inProgress,
                   results, timeoutAt, race, bout>>

\* setTimeout(timeout_ms) of `id` fires and throws `Operation ... timed out`
TimeoutFires ==
    /\ bpc \in {"await", "returned", "failed"}
    /\ jobs = <<>>
    /\ \E id \in BatchIds :
         /\ timeoutAt[id] >= 0
         /\ \A d \in Deadlines : timeoutAt[id] =< d
         /\ now' = timeoutAt[id]
         /\ timeoutAt' = [timeoutAt EXCEPT ![id] = -1]
         /\ IF promise[id] = "pending"
            THEN /\ promise' = [promise EXCEPT ![id] = "rejected"]
                 /\ jobs' = SettleJobs(id)
            ELSE UNCHANGED <<promise, jobs>>
    /\ UNCHANGED <<nticks, legacy, cacheVars, retryVars, rateVars, ncalls, bargs, bpc, queue, inProgress,
                   results, workAt, race, bout>>

\* run the first microtask
RunJob ==
    /\ bpc \in {"await", "returned", "failed"}
    /\ jobs # <<>>
    /\ LET job == Head(jobs)
           rest == Tail(jobs)
           id == job.id
       IN  CASE job.kind = "then" ->
                 \* .then(result => results.push({... success: true ...}))
                 /\ results' = IF promise[id] = "fulfilled"
                               THEN Append(results,
                                      [id |-> id, success |-> TRUE, cached |-> FALSE,
                                       result |-> WorkResult(OpOf(id))])
                               ELSE results
                 /\ jobs' = Append(rest, [kind |-> "catch", id |-> id])
                 /\ UNCHANGED <<queue, inProgress, race, bpc>>
            [] job.kind = "catch" ->
                 \* .catch(error => { results.push(...); if (!continue_on_error) queue.length = 0 })
                 /\ results' = IF promise[id] = "rejected"
                               THEN Append(results,
                                      [id |-> id, success |-> FALSE, cached |-> FALSE,
                                       result |-> <<"timed out">>])
                               ELSE results
                 /\ queue' = IF promise[id] = "rejected" /\ ~bargs.continue_on_error
                             THEN <<>> ELSE queue
                 /\ jobs' = Append(rest, [kind |-> "finally", id |-> id])
                 /\ UNCHANGED <<inProgress, race, bpc>>
            [] job.kind = "finally" ->
                 \* .finally(() => inProgress.delete(op.id))
                 /\ inProgress' = SeqRemove(inProgress, id)
                 /\ jobs' = rest
                 /\ UNCHANGED <<queue, results, race, bpc>>
            [] job.kind = "race" ->
                 \* Promise.race's reaction on one member: first settlement wins
                 /\ IF race = "pending"
                    THEN /\ race' = promise[id]
                         /\ jobs' = Append(rest, [kind |-> "cont", id |-> id])
                    ELSE /\ race' = race
                         /\ jobs' = rest
                 /\ UNCHANGED <<queue, inProgress, results, bpc>>
            [] job.kind = "cont" ->
                 \* the await resumes the handler, or throws into its catch block
                 /\ bpc' = IF race = "fulfilled" THEN "loop" ELSE "failed"
                 /\ race' = "none"
                 /\ jobs' = rest
                 /\ UNCHANGED <<queue, inProgress, results>>
    /\ UNCHANGED <<now, nticks, legacy, cacheVars, retryVars, rateVars, ncalls, bargs, promise, workAt,
                   timeoutAt, bout>>

----------------------------------------------------------------------------
(* Legacy server: retry_with_backoff *)

Min(a, b) == IF a =< b THEN a ELSE b

\* jitter ? Math.random() * 0.3 * delay : 0
JitterAmount(jitter, random, delay) ==
    IF jitter THEN (random * 3 * delay) \div 100 ELSE 0

\* delay = Math.min(delay * 2, max_delay_ms)
NextDelay(delay, max_delay_ms) == Min(delay * 2, max_delay_ms)

\* for (let attempt = 0; attempt <= max_retries; attempt++)
LoopGoesOn(attempt, max_retries) == attempt =< max_retries

\* the call arrives: let delay = initial_delay_ms; attempt = 0
retry_with_backoff ==
    /\ legacy.pc = "idle"
    /\ \E m \in LegacyMaxRetriesArgs, d \in LegacyInitialDelayArgs,
          x \in LegacyMaxDelayArgs, j \in BOOLEAN :
         legacy' = [NoLegacyCall EXCEPT !.pc = "execute", !.max_retries = m,
                                      !.initial_delay_ms = d, !.max_delay_ms = x,
                                      !.jitter = j, !.delay = d]
    /\ UNCHANGED <<now, nticks, cacheVars, retryVars, batchVars, rateVars>>

\* if (attempt > 0) await setTimeout(delay + jitterAmount)
LegacyWait ==
    /\ legacy.pc = "wait"
    /\ \E r \in RandomTenths :
         LET actualDelay == legacy.delay + JitterAmount(legacy.jitter, r, legacy.delay)
         IN  /\ legacy' = [legacy EXCEPT !.pc = "execute",
                                         !.waits = Append(@, actualDelay)]
             /\ now' = now + actualDelay
    /\ UNCHANGED <<nticks, cacheVars, retryVars, batchVars, rateVars>>

\* await executeToolCall(...): return on success; on failure the catch block
\* doubles the delay and the loop goes on or ends in the McpError
LegacyExecute ==
    /\ legacy.pc = "execute"
    /\ \E outcome \in ToolOutcomes :
         IF outcome = "ok"
         THEN legacy' = [legacy EXCEPT !.pc = "returned", !.executions = @ + 1]
         ELSE legacy' = [legacy EXCEPT
                           !.executions = @ + 1,
                           !.delay = NextDelay(legacy.delay, legacy.max_delay_ms),
                           !.attempt = @ + 1,
                           !.pc = IF LoopGoesOn(legacy.attempt + 1, legacy.max_retries)
                                  THEN "wait" ELSE "thrown"]
    /\ UNCHANGED <<now, nticks, cacheVars, retryVars, batchVars, rateVars>>

NextLegacy ==
    \/ retry_with_backoff
    \/ LegacyWait
    \/ LegacyExecute

SpecLegacy == Init /\ [][NextLegacy]_vars

----------------------------------------------------------------------------
(* Rate limiter *)

Max(a, b) == IF a >= b THEN a ELSE b

\* Math.ceil(ms / 1000) for ms >= 0
CeilSeconds(ms) == (ms + 999) \div 1000

WindowExpired_strict(limit) == limit.resetAt < now

\* limit.resetAt <= now
WindowExpired(limit) == limit.resetAt =< now

Allowed_inclusive(count, max_requests) == count =< max_requests

\* limit.count < max_requests
Allowed(count, max_requests) == count < max_requests

\* Math.max(0, max_requests - limit.count), taken before the increment
Remaining(max_requests, count) == Max(0, max_requests - count)

NoteRate(h, replaced, old, max_requests, window_seconds, allowed, increment) ==
    LET inRun == increment /\ (replaced \/ (h.run >= 0 /\ h.runMax = max_requests))
    IN  [h EXCEPT
           !.windows = IF replaced THEN @ + 1 ELSE @,
           !.run = IF inRun THEN (IF replaced THEN 1 ELSE @ + 1) ELSE -1,
           !.runMax = IF replaced THEN max_requests ELSE @,
           !.prevFull = IF replaced
                        THEN old.count > 0 /\ old.count >= max_requests
                        ELSE @,
           !.argsMax = IF @ = -1 \/ @ = max_requests THEN max_requests ELSE -2,
           !.argsWin = IF @ = -1 \/ @ = window_seconds THEN window_seconds ELSE -2,
           !.grants = IF allowed /\ increment THEN Append(@, now) ELSE @,
           !.opened = IF replaced THEN now ELSE @]

rate_limit_check(resource, max_requests, window_seconds, increment) ==
    LET windowMs == window_seconds * 1000
        had == Has(rateLimits, resource)
        old == IF had THEN rateLimits[resource] ELSE [count |-> 0, resetAt |-> 0]
        replaced == ~had \/ WindowExpired(old)
        limit == IF replaced THEN [count |-> 0, resetAt |-> now + windowMs] ELSE old
        allowed == Allowed(limit.count, max_requests)
        remaining == Remaining(max_requests, limit.count)
        resetIn == CeilSeconds(limit.resetAt - now)
        count == IF allowed /\ increment THEN limit.count + 1 ELSE limit.count
    IN  /\ nrate < MaxRateChecks
        /\ nrate' = nrate + 1
        /\ rateLimits' = MapSet(rateLimits, resource, [limit EXCEPT !.count = count])
        /\ lres' = [op |-> "rate_limit_check", resource |-> resource,
                    allowed |-> allowed, current_count |-> count,
                    max_requests |-> max_requests, remaining |-> remaining,
                    reset_in_seconds |-> resetIn,
                    window_seconds |-> window_seconds, increment |-> increment]
        /\ rateHist' = [rateHist EXCEPT ![resource] =
                           NoteRate(@, replaced, old, max_requests, window_seconds,
                                    allowed, increment)]
        /\ UNCHANGED <<now, nticks, legacy, cacheVars, retryVars, batchVars>>

RateLimitCheck ==
    \E r \in Resources, m \in MaxRequestsArgs, w \in WindowSecondsArgs,
       i \in BOOLEAN : rate_limit_check(r, m, w, i)

----------------------------------------------------------------------------
(* The periodic sweep and the clock *)

SweepCache_early(m) == MapDelete(m, { k \in DOMAIN m : m[k].expiresAt =< now + 1000 })

SweepCache_strict(m) == MapDelete(m, { k \in DOMAIN m : m[k].expiresAt < now })

\* setInterval callback, cache half
SweepCache(m) == MapDelete(m, { k \in DOMAIN m : m[k].expiresAt =< now })

RetryStale_noHorizon(m) == { k \in DOMAIN m : m[k].lastAttempt < now }

\* setInterval callback, retry half
RetryStale(m) == { k \in DOMAIN m : m[k].lastAttempt < now - RetryHorizonMs }

Sweep ==
    /\ cache' = SweepCache(cache)
    /\ retryMetadata' = MapDelete(retryMetadata, RetryStale(retryMetadata))
    /\ retryHist' = [id \in OperationIds |->
                       IF id \in RetryStale(retryMetadata)
                       THEN [retryHist[id] EXCEPT !.swept = TRUE, !.exceededMax = 0]
                       ELSE retryHist[id]]
    /\ cres' = [CacheReply("sweep", <<>>, <<>>)
                  EXCEPT !.cleared = Cardinality(DOMAIN cache \ DOMAIN cache')]
    /\ rres' = NoRetryReply
    /\ UNCHANGED <<now, nticks, legacy, lastPut, nputs, batchVars, rateVars>>

\* wall-clock time passes; no tool reply is current any more
Tick(d, limit) ==
    /\ nticks < limit
    /\ nticks' = nticks + 1
    /\ now' = now + d
    /\ cres' = CacheReply("none", <<>>, <<>>)
    /\ rres' = NoRetryReply
    /\ lres' = NoRateReply
    /\ UNCHANGED <<legacy, cache, lastPut, nputs, retryMetadata, retryHist, batchVars,
                   rateLimits, rateHist, nrate>>

TickCache == \E d \in CacheTickMs : Tick(d, MaxTicks)
TickRetry == \E d \in RetryTickMs : Tick(d, MaxRetryTicks)
TickPair == \E d \in RetryTickMs : Tick(d, MaxPairTicks)
TickRate == \E d \in RateTickMs : Tick(d, MaxRateTicks)

CacheGet == \E k \in Keys, n \in NamespaceArgs : cache_get(k, n)
CachePut == \E k \in Keys, v \in Values, t \in TtlSeconds, n \in NamespaceArgs :
                cache_put(k, v, t, n)
CacheDelete == \E k \in Keys, n \in NamespaceArgs : cache_delete(k, n)
CacheClear == \E n \in NamespaceArgs : cache_clear(n)

NextCache ==
    \/ CacheGet
    \/ CachePut
    \/ CacheDelete
    \/ CacheClear
    \/ Sweep
    \/ TickCache

SpecCache == Init /\ [][NextCache]_vars

NextRetry ==
    \/ RetryOperation
    \/ Sweep
    \/ TickRetry

SpecRetry == Init /\ [][NextRetry]_vars

NextRetryPair ==
    \/ RetryOperationPair
    \/ Sweep
    \/ TickPair

SpecRetryPair == Init /\ [][NextRetryPair]_vars

\* the server keeps answering: a request, sweep or clock step that is possible
\* is eventually taken
SpecRetryFair == SpecRetry /\ WF_vars(NextRetry)

NextRate ==
    \/ RateLimitCheck
    \/ TickRate

SpecRate == Init /\ [][NextRate]_vars

NextBatch ==
    \/ BatchCall
    \/ StartOp
    \/ AwaitRace
    \/ LoopIdle
    \/ BatchReturn
    \/ WorkFires
    \/ TimeoutFires
    \/ RunJob

SpecBatch == Init /\ [][NextBatch]_vars

\* the event loop keeps running: a runnable handler step, microtask or due
\* timer is eventually taken
SpecBatchFair == SpecBatch /\ WF_vars(NextBatch)

NextBatchTwice ==
    \/ NextBatch
    \/ BatchCallAgain

SpecBatchTwice == Init /\ [][NextBatchTwice]_vars

\* another request is handled only while no handler is running and the
\* microtask queue is empty
ToolCallPossible == bpc \in {"idle", "await", "returned", "failed"} /\ jobs = <<>>

\* cache_get({namespace: "batch", key: `${type}:${JSON.stringify(data)}`})
BatchKeyGet ==
    /\ ToolCallPossible
    /\ \E d \in {"d1", "d2"} :
         cache_get(<<"t">> \o <<Colon>> \o JSONstringify(d), Given(<<"batch">>))

\* a retry_operation request handled while the batch handler is suspended in
\* its await, or before or after the batch call
RetryBesideBatch ==
    /\ ToolCallPossible
    /\ \E id \in DeepIds, m \in BesideMaxRetriesArgs, d \in BesideInitialDelayArgs,
          x \in BOOLEAN : retry_operation(id, m, d, x)

\* the setInterval callback runs between handler steps like any other timer
SweepBesideBatch ==
    /\ ToolCallPossible
    /\ Sweep

\* time passes while no batch timer is pending
TickIdle ==
    /\ ToolCallPossible
    /\ Deadlines = {}
    /\ \E d \in IdleTickMs : Tick(d, MaxIdleTicks)

NextBatchRetry ==
    \/ NextBatch
    \/ RetryBesideBatch
    \/ SweepBesideBatch
    \/ TickIdle

SpecBatchRetry == Init /\ [][NextBatchRetry]_vars

\* the key under which the caller-facing cache tools reach a batch entry:
\* namespace "batch", key `${type}:${JSON.stringify(data)}`
BatchEntryKey(d) == <<"t">> \o <<Colon>> \o JSONstringify(d)
SharedData == { "d1" }
SharedValues == { <<"a">> }
SharedTtlSeconds == { 300 }

\* cache_put({namespace: "batch", key: `${type}:${JSON.stringify(data)}`, ...})
BatchKeyPut ==
    /\ ToolCallPossible
    /\ \E d \in SharedData, v \in SharedValues, t \in SharedTtlSeconds :
         cache_put(BatchEntryKey(d), v, t, Given(<<"batch">>))

\* cache_delete({namespace: "batch", key: `${type}:${JSON.stringify(data)}`})
BatchKeyDelete ==
    /\ ToolCallPossible
    /\ \E d \in SharedData : cache_delete(BatchEntryKey(d), Given(<<"batch">>))

\* cache_clear({namespace: "batch"})
BatchKeyClear ==
    /\ ToolCallPossible
    /\ cache_clear(Given(<<"batch">>))

NextBatchShared ==
    \/ NextBatch
    \/ BatchKeyGet
    \/ BatchKeyPut
    \/ BatchKeyDelete
    \/ BatchKeyClear

SpecBatchShared == Init /\ [][NextBatchShared]_vars

NextBatchReads ==
    \/ NextBatch
    \/ BatchKeyGet

SpecBatchReads == Init /\ [][NextBatchReads]_vars

----------------------------------------------------------------------------
(* Properties *)

\* the cache key a reply is about, as `namespace:key`
ReplyKey(r) == r.namespace \o <<Colon>> \o r.key

IdSeq(s) == [i \in DOMAIN s |-> s[i].id]

InFlight == { id \in BatchIds : promise[id] = "pending" }

SomeFailure == \E i \in DOMAIN results : ~results[i].success

\* C1: a cache_get issued while fewer than ttl seconds have passed since the
\* last cache_put of its key (no delete or clear of the key in between)
\* returns found = true with the value of that put, also when the put
\* replaced an earlier entry and whatever sweeps ran in between.
C1_PutThenGetFound ==
    (/\ cres.op = "cache_get"
     /\ Has(lastPut, ReplyKey(cres))
     /\ now < lastPut[ReplyKey(cres)].at + lastPut[ReplyKey(cres)].ttl * 1000)
    => (cres.found /\ cres.value = lastPut[ReplyKey(cres)].value)

C1_Witness ==
    /\ cres.op = "cache_get"
    /\ cres.found
    /\ Has(lastPut, ReplyKey(cres))
    /\ lastPut[ReplyKey(cres)].over
    /\ now > lastPut[ReplyKey(cres)].at
    /\ cres.value = lastPut[ReplyKey(cres)].value

\* C2: once the ttl of the last put of a key has elapsed, a cache_get of that
\* key returns found = false and leaves the store without an entry for it,
\* whether a sweep has removed the entry before or the get finds it expired.
C2_ExpiredGetRemoves ==
    [][ (/\ cres'.op = "cache_get"
         /\ Has(lastPut, ReplyKey(cres'))
         /\ now >= lastPut[ReplyKey(cres')].at + lastPut[ReplyKey(cres')].ttl * 1000)
        => (~cres'.found /\ ~Has(cache', ReplyKey(cres'))) ]_vars

C2_Witness ==
    /\ cres.op = "cache_get"
    /\ cres.reason = "expired"
    /\ ~cres.found
    /\ ~Has(cache, ReplyKey(cres))

\* C3: the same key under two different namespaces never collides: what a
\* cache_get finds is the value of the last write to its own entry, and if
\* that write was a put of the same key it was a put in the same namespace.
C3_NamespacesDoNotCollide ==
    (cres.op = "cache_get" /\ cres.found)
    => /\ Has(lastPut, ReplyKey(cres))
       /\ cres.value = lastPut[ReplyKey(cres)].value
       /\ (lastPut[ReplyKey(cres)].key = cres.key
             => lastPut[ReplyKey(cres)].namespace = cres.namespace)

C3_Witness ==
    /\ cres.op = "cache_get"
    /\ cres.found
    /\ \E k2 \in DOMAIN cache :
         /\ k2 # ReplyKey(cres)
         /\ lastPut[k2].key = cres.key
         /\ lastPut[k2].namespace # cres.namespace
         /\ lastPut[k2].value # cres.value
         /\ cache[k2].expiresAt > now

\* C4: during a batch_operation call with concurrency c, the operations that
\* were started and have neither completed nor timed out never number more
\* than c.
C4_InFlightBounded ==
    bpc # "idle" => Cardinality(InFlight) =< bargs.concurrency

C4_Witness ==
    /\ bpc = "await"
    /\ Cardinality(InFlight) = bargs.concurrency
    /\ bargs.concurrency = 2
    /\ Len(queue) > 0

\* C5: when batch_operation returns, the ids of its results array are the
\* ids of the input operations, in the input order, whatever the order in
\* which the operations completed.
C5_ResultsInInputOrder ==
    bpc = "returned" => IdSeq(bout.results) = IdSeq(bargs.operations)

C5_Witness ==
    /\ bpc = "returned"
    /\ Len(results) = Len(bargs.operations)
    /\ IdSeq(results) # IdSeq(bargs.operations)
    /\ IdSeq(bout.results) = IdSeq(bargs.operations)

\* C6: with continue_on_error = true a failed or timed-out operation is
\* captured per item: the call never raises an error, and when it returns
\* the result holds one entry per input operation.
C6_FailureCapturedPerOperation ==
    bargs.continue_on_error
    => /\ bpc # "failed"
       /\ (bpc = "returned"
             => /\ Len(bout.results) = Len(bargs.operations)
                /\ \A i \in DOMAIN bout.results : bout.results[i] # NullResult)

\* C7: with continue_on_error = false, once an operation has failed nothing
\* is left in the pending queue to be started, and the call returns a result
\* that preserves every success and failure recorded so far.
C7_FailFastKeepsResults ==
    (~bargs.continue_on_error /\ SomeFailure)
    => /\ queue = <<>>
       /\ bpc # "failed"
       /\ (bpc = "returned"
             => \A i \in DOMAIN results :
                  \E j \in DOMAIN bout.results : bout.results[j] = results[i])

\* execute_attempt replies handed out for the id of the current reply before
\* that reply
PriorExecs ==
    retryHist[rres.operation_id].execs
      - (IF rres.status = "execute_attempt" THEN 1 ELSE 0)

\* C8 (as claimed): for an id always checked with the same max_retries = m,
\* once m execute_attempt replies were handed out every further check
\* returns max_retries_exceeded, in any sequence of checks, clock advances
\* and sweeps.
C8_NoAttemptBeyondMax ==
    (/\ rres.op = "retry_operation"
     /\ retryHist[rres.operation_id].maxUsed > 0
     /\ PriorExecs >= retryHist[rres.operation_id].maxUsed)
    => rres.status = "max_retries_exceeded"

\* C8 (amended): the same, as long as the sweep has not removed the id's
\* entry (it removes entries whose last attempt is over an hour old).
C8_NoAttemptBeyondMaxUnlessSwept ==
    (/\ rres.op = "retry_operation"
     /\ retryHist[rres.operation_id].maxUsed > 0
     /\ ~retryHist[rres.operation_id].swept
     /\ PriorExecs >= retryHist[rres.operation_id].maxUsed)
    => rres.status = "max_retries_exceeded"

C8_Witness ==
    /\ rres.op = "retry_operation"
    /\ rres.status = "max_retries_exceeded"
    /\ retryHist[rres.operation_id].maxUsed = 3
    /\ retryHist[rres.operation_id].execs = 3
    /\ ~retryHist[rres.operation_id].swept

\* a check arrives before the backoff delay of the latest attempt has passed
EarlyCheck(h, reply, t) ==
    /\ h.lastN > 0
    /\ h.lastN < reply.max_retries
    /\ t - h.lastAt < reply.initial_delay_ms * Pow2(h.lastN)

\* C9 (as claimed): a check on an id that has made n > 0 attempts, n <
\* max_retries, issued before initial_delay_ms * 2^n has passed since the
\* latest attempt, returns retry_delayed with wait_ms > 0 and makes no new
\* attempt, also when a sweep ran between the attempt and the check.
C9_EarlyCheckDelayed ==
    [][ (/\ rres'.op = "retry_operation"
         /\ EarlyCheck(retryHist[rres'.operation_id], rres', now))
        => (/\ rres'.status = "retry_delayed"
            /\ rres'.wait_ms > 0
            /\ retryHist'[rres'.operation_id].execs
                 = retryHist[rres'.operation_id].execs) ]_vars

\* C9 (amended): the same, provided the id's entry is still in the retry
\* store when the check arrives.
C9_EarlyCheckDelayedWhileStored ==
    [][ (/\ rres'.op = "retry_operation"
         /\ Has(retryMetadata, rres'.operation_id)
         /\ EarlyCheck(retryHist[rres'.operation_id], rres', now))
        => (/\ rres'.status = "retry_delayed"
            /\ rres'.wait_ms > 0
            /\ rres'.attempts = retryHist[rres'.operation_id].lastN
            /\ retryMetadata' = retryMetadata
            /\ retryHist'[rres'.operation_id].execs
                 = retryHist[rres'.operation_id].execs) ]_vars

C9_Witness ==
    /\ rres.op = "retry_operation"
    /\ rres.status = "retry_delayed"
    /\ rres.wait_ms > 0
    /\ rres.initial_delay_ms = 60000
    /\ rres.attempts = 6
    /\ retryHist[rres.operation_id].lastN = 6
    /\ now > retryHist[rres.operation_id].lastAt

\* C10: when an id is checked again and again with max_retries = 3, the
\* default initial delay and execution requested, the 4th and every later
\* check returns max_retries_exceeded, however little time has passed.
C10_FourthCallExceeded ==
    (/\ rres.op = "retry_operation"
     /\ retryHist[rres.operation_id].defaults >= 4)
    => rres.status = "max_retries_exceeded"

\* the retry store holds an id marked as succeeded
Succeeded(id) == Has(retryMetadata, id) /\ retryMetadata[id].success

\* C11: the succeeded state of an operation id is reached through the
\* operations the server offers, and once an id is succeeded every check on
\* it returns already_succeeded with the stored attempts and changes nothing.
C11_SucceededIsReachedAndTerminal ==
    /\ <>(\E id \in OperationIds : Succeeded(id))
    /\ [][ (/\ rres'.op = "retry_operation"
             /\ Succeeded(rres'.operation_id))
            => (/\ rres'.status = "already_succeeded"
                /\ rres'.attempts = retryMetadata[rres'.operation_id].attempts
                /\ retryMetadata' = retryMetadata) ]_vars

\* C12: on a resource that had no window before, the k-th of consecutive
\* increment = true checks with max_requests = n inside the window is answered
\* allowed = true with remaining = n - k for k =< n, and the (n+1)-th is
\* answered allowed = false with remaining = 0.
C12_RemainingCountsDown ==
    (/\ lres.op = "rate_limit_check"
     /\ rateHist[lres.resource].windows = 1
     /\ rateHist[lres.resource].run >= 1
     /\ rateHist[lres.resource].runMax = lres.max_requests)
    => /\ (rateHist[lres.resource].run =< lres.max_requests
            => /\ lres.allowed
               /\ lres.remaining = lres.max_requests - rateHist[lres.resource].run)
       /\ (rateHist[lres.resource].run = lres.max_requests + 1
            => /\ ~lres.allowed
               /\ lres.remaining = 0)

\* the step is an increment = true check on a resource whose window has run out
CheckAfterReset ==
    /\ nrate' = nrate + 1
    /\ lres'.op = "rate_limit_check"
    /\ lres'.increment
    /\ Has(rateLimits, lres'.resource)
    /\ rateLimits[lres'.resource].resetAt =< now

\* C13 (as claimed): once resetAt of a resource's window has passed, the next
\* increment = true check is answered allowed = true with current_count = 1.
C13_ResetAllows ==
    [][ CheckAfterReset => (lres'.allowed /\ lres'.current_count = 1) ]_vars

\* C13 (amended): the same for checks that pass max_requests >= 1.
C13_ResetAllowsPositiveMax ==
    [][ (CheckAfterReset /\ lres'.max_requests >= 1)
        => (/\ lres'.allowed
            /\ lres'.current_count = 1
            /\ rateLimits'[lres'.resource].count = 1
            /\ rateLimits'[lres'.resource].resetAt
                  = now + lres'.window_seconds * 1000) ]_vars

C13_Witness ==
    /\ lres.op = "rate_limit_check"
    /\ lres.increment
    /\ lres.allowed
    /\ lres.current_count = 1
    /\ rateHist[lres.resource].windows >= 2
    /\ rateHist[lres.resource].run = 1
    /\ rateHist[lres.resource].prevFull
    /\ rateHist[lres.resource].argsMax = lres.max_requests

\* C14: for a resource always checked with the same max_requests = m and
\* window_seconds = w, every time interval of length w holds at most m
\* increment = true checks answered allowed = true (sliding window).
C14_SlidingWindow ==
    \A r \in Resources :
      (rateHist[r].argsMax >= 0 /\ rateHist[r].argsWin >= 0)
      => \A j \in DOMAIN rateHist[r].grants :
           Cardinality({ i \in DOMAIN rateHist[r].grants :
                           /\ rateHist[r].grants[i] =< rateHist[r].grants[j]
                           /\ rateHist[r].grants[i]
                                > rateHist[r].grants[j] - rateHist[r].argsWin * 1000 })
             =< rateHist[r].argsMax

\* C15: a cache_put with ttl_seconds outside [1, 86400] is rejected and stores
\* nothing: no entry of the cache stems from a put with such a ttl.
C15_OutOfRangeTtlRejected ==
    \A k \in DOMAIN cache :
      Has(lastPut, k)
      => /\ lastPut[k].ttl >= MinTtlSeconds
         /\ lastPut[k].ttl =< MaxTtlSeconds

\* C17: a cache_clear issued right after a cache_clear with the same argument
\* reports cleared_entries = 0 and leaves the cache as the first call left it.
C17_ClearTwice ==
    [][ (cres'.op = "cache_clear" /\ cres'.before >= 0)
        => (cres'.cleared = 0 /\ cache' = cache) ]_vars

C17_Witness ==
    /\ cres.op = "cache_clear"
    /\ cres.namespace # <<>>
    /\ cres.before >= 1
    /\ cres.cleared = 0
    /\ cache # EmptyMap

\* C18: cache_clear with namespace n removes exactly the entries put under
\* namespace n and leaves the entries put under other namespaces as they
\* were; without a namespace it removes all entries; cleared_entries is the
\* number of entries removed.
C18_ClearRemovesOwnNamespaceOnly ==
    [][ cres'.op = "cache_clear"
        => /\ cres'.cleared = Cardinality(DOMAIN cache \ DOMAIN cache')
           /\ IF cres'.namespace # <<>>
              THEN /\ DOMAIN cache' = { k \in DOMAIN cache :
                                          lastPut[k].namespace # cres'.namespace }
                   /\ \A k \in DOMAIN cache' : cache'[k] = cache[k]
              ELSE cache' = EmptyMap ]_vars

\* C20: a sweep removes every cache entry with expiresAt =< now and leaves
\* every entry with expiresAt > now unchanged.
C20_SweepRemovesExactlyExpired ==
    [][ cres'.op = "sweep"
        => /\ DOMAIN cache' \subseteq DOMAIN cache
           /\ \A k \in DOMAIN cache :
                /\ cache[k].expiresAt =< now => ~Has(cache', k)
                /\ cache[k].expiresAt > now
                     => (Has(cache', k) /\ cache'[k] = cache[k]) ]_vars

C20_Witness ==
    /\ cres.op = "sweep"
    /\ cres.cleared >= 1
    /\ \E k \in DOMAIN cache : cache[k].expiresAt > now
    /\ \E k \in DOMAIN lastPut :
         /\ ~Has(cache, k)
         /\ lastPut[k].at + lastPut[k].ttl * 1000 = now

\* C16: a batch_operation call with concurrency outside [1, 20] is rejected
\* at once: the handler never gets to start, await or circle in its
\* scheduling loop, no operation is started, and the call completes with an
\* error.
C16_BadConcurrencyRejected ==
    (bpc # "idle" /\ (bargs.concurrency < MinConcurrency
                       \/ bargs.concurrency > MaxConcurrency))
    => /\ bpc \in {"loop", "failed"}
       /\ \A id \in BatchIds : promise[id] = "none"
       /\ queue = bargs.operations

\* C19: no read of the cache returns the value of an entry with
\* expiresAt =< now: a cache_get that answers found, and a batch lookup that
\* reports a cached result, both read an entry with expiresAt > now.
C19_NoExpiredRead ==
    [][ /\ (cres' # cres /\ cres'.op = "cache_get" /\ cres'.found)
           => /\ Has(cache, ReplyKey(cres'))
              /\ cache[ReplyKey(cres')].expiresAt > now
              /\ cres'.value = cache[ReplyKey(cres')].value
        /\ \A i \in DOMAIN results' :
             (i > Len(results) /\ results'[i].cached)
             => /\ Has(cache, BatchCacheKey(OpOf(results'[i].id)))
                /\ cache[BatchCacheKey(OpOf(results'[i].id))].expiresAt > now
                /\ results'[i].result
                     = cache[BatchCacheKey(OpOf(results'[i].id))].value ]_vars

C19_Witness ==
    /\ bargs.use_cache
    /\ promise["c"] = "pending"
    /\ Has(cache, BatchCacheKey(OpOf("c")))
    /\ cache[BatchCacheKey(OpOf("c"))].expiresAt = now
    /\ \A i \in DOMAIN results : ~results[i].cached
    /\ cres.op = "cache_get"
    /\ cres.reason = "expired"

\* the cache of a server that took the same calls and clock steps but whose
\* sweep never ran: every explicit write that no delete, clear or lazy
\* expiry has removed since
NoSweepCache ==
    [k \in { x \in DOMAIN lastPut : ~lastPut[x].gone }
       |-> [value |-> lastPut[k].value,
            expiresAt |-> lastPut[k].at + lastPut[k].ttl * 1000]]

\* C21: the replies of cache_get (found, value), cache_delete (existed) and
\* cache_clear (cleared_entries) are the ones a server without sweeps gives
\* to the same calls at the same times.
C21_SweepIsInvisible ==
    [][ /\ cres'.op = "cache_get"
           => /\ cres'.found = (/\ Has(NoSweepCache, ReplyKey(cres'))
                                 /\ NoSweepCache[ReplyKey(cres')].expiresAt > now)
              /\ cres'.found => cres'.value = NoSweepCache[ReplyKey(cres')].value
        /\ cres'.op = "cache_delete"
           => cres'.existed = Has(NoSweepCache, ReplyKey(cres'))
        /\ cres'.op = "cache_clear"
           => cres'.cleared
                = Cardinality({ k \in DOMAIN NoSweepCache :
                                  \/ cres'.namespace = <<>>
                                  \/ startsWith(k, cres'.namespace \o <<Colon>>) })
      ]_vars

\* what the retry store holds for an id before a check (a new id: no attempts)
Stored(id) == IF Has(retryMetadata, id) THEN retryMetadata[id] ELSE NewMetadata

\* C22: a check of an id that is neither succeeded nor exhausted may proceed
\* (execute_attempt or ready_to_execute) exactly when attempts = 0 or
\* now - lastAttempt >= initial_delay_ms * 2^attempts; otherwise it returns
\* retry_delayed with wait_ms = initial_delay_ms * 2^attempts - (now - lastAttempt).
C22_ProceedIffDelayElapsed ==
    [][ (/\ rres'.op = "retry_operation"
         /\ ~Stored(rres'.operation_id).success
         /\ Stored(rres'.operation_id).attempts < rres'.max_retries)
        => IF \/ Stored(rres'.operation_id).attempts = 0
              \/ now - Stored(rres'.operation_id).lastAttempt
                   >= rres'.initial_delay_ms * Pow2(Stored(rres'.operation_id).attempts)
           THEN rres'.status \in {"execute_attempt", "ready_to_execute"}
           ELSE /\ rres'.status = "retry_delayed"
                /\ rres'.wait_ms
                     = rres'.initial_delay_ms * Pow2(Stored(rres'.operation_id).attempts)
                         - (now - Stored(rres'.operation_id).lastAttempt) ]_vars

C22_Witness ==
    /\ rres.op = "retry_operation"
    /\ rres.status = "ready_to_execute"
    /\ rres.attempts = 2
    /\ Has(retryMetadata, rres.operation_id)
    /\ now - retryMetadata[rres.operation_id].lastAttempt
         = rres.initial_delay_ms * Pow2(rres.attempts)

\* C23: a check that returns execute_attempt adds 1 to the attempts of its id
\* and sets its lastAttempt to now, leaving every other id alone; a check
\* with any other status leaves the retry store unchanged.
C23_OnlyExecuteMutates ==
    [][ rres'.op = "retry_operation"
        => IF rres'.status = "execute_attempt"
           THEN /\ DOMAIN retryMetadata' = DOMAIN retryMetadata \cup {rres'.operation_id}
                /\ retryMetadata'[rres'.operation_id].attempts
                     = Stored(rres'.operation_id).attempts + 1
                /\ retryMetadata'[rres'.operation_id].lastAttempt = now
                /\ \A id \in DOMAIN retryMetadata \ {rres'.operation_id} :
                     retryMetadata'[id] = retryMetadata[id]
           ELSE retryMetadata' = retryMetadata ]_vars

C23_Witness ==
    /\ rres.op = "retry_operation"
    /\ rres.status = "execute_attempt"
    /\ rres.operation_id = "op2"
    /\ rres.attempts = 2
    /\ retryMetadata["op2"].lastAttempt = now
    /\ Has(retryMetadata, "op1")
    /\ retryMetadata["op1"].attempts = 3
    /\ retryMetadata["op1"].lastAttempt < now

\* C24 (as claimed): once a check of an id has returned max_retries_exceeded,
\* no later check of that id returns execute_attempt or ready_to_execute.
C24_ExhaustedIsTerminal ==
    [][ (/\ rres'.op = "retry_operation"
         /\ retryHist[rres'.operation_id].exceeded)
        => rres'.status \notin {"execute_attempt", "ready_to_execute"} ]_vars

\* C24 (amended): once a check of an id has returned max_retries_exceeded for
\* max_retries = m, no later check of that id that passes max_retries =< m
\* returns execute_attempt or ready_to_execute, after any clock advance,
\* until a sweep removes the id's entry.
C24_ExhaustedUntilSweptOrRaised ==
    [][ (/\ rres'.op = "retry_operation"
         /\ retryHist[rres'.operation_id].exceededMax >= rres'.max_retries)
        => rres'.status \notin {"execute_attempt", "ready_to_execute"} ]_vars

C24_Witness ==
    /\ rres.op = "retry_operation"
    /\ rres.status = "max_retries_exceeded"
    /\ rres.max_retries = 3
    /\ rres.attempts = 7
    /\ retryHist[rres.operation_id].exceededMax = 7

\* C25 (as claimed): the attempts value a check reports for an id is never
\* smaller than the attempt number handed out to that id before.
C25_AttemptsNeverDecrease ==
    [][ rres'.op = "retry_operation"
        => /\ rres'.attempts >= retryHist[rres'.operation_id].lastN
           /\ retryHist'[rres'.operation_id].lastN
                >= retryHist[rres'.operation_id].lastN ]_vars

\* C25 (amended): the same, as long as the sweep has not removed the id's
\* entry.
C25_AttemptsNeverDecreaseUnlessSwept ==
    [][ (/\ rres'.op = "retry_operation"
         /\ ~retryHist[rres'.operation_id].swept)
        => /\ rres'.attempts >= retryHist[rres'.operation_id].lastN
           /\ retryHist'[rres'.operation_id].lastN
                >= retryHist[rres'.operation_id].lastN ]_vars

C25_Witness ==
    /\ rres.op = "retry_operation"
    /\ rres.status = "retry_delayed"
    /\ rres.attempts = 2
    /\ retryHist[rres.operation_id].lastN = 2
    /\ ~retryHist[rres.operation_id].swept
    /\ now > retryHist[rres.operation_id].lastAt

\* C26: every execute_attempt carries an attempt number =< the max_retries of
\* the same check, also when the checks of an id pass different max_retries;
\* no check ever lowers the stored attempts of an id.
C26_AttemptWithinMax ==
    [][ rres'.op = "retry_operation"
        => /\ rres'.status = "execute_attempt" => rres'.attempts =< rres'.max_retries
           /\ Has(retryMetadata, rres'.operation_id)
                => /\ Has(retryMetadata', rres'.operation_id)
                   /\ retryMetadata'[rres'.operation_id].attempts
                        >= retryMetadata[rres'.operation_id].attempts ]_vars

C26_Witness ==
    /\ rres.op = "retry_operation"
    /\ rres.status = "execute_attempt"
    /\ rres.attempts = 3
    /\ rres.max_retries = 3
    /\ retryHist[rres.operation_id].maxUsed = -1

\* C27: a sweep removes exactly the retry entries whose lastAttempt lies more
\* than one hour before now, whatever their attempts, and leaves the other
\* entries unchanged.
C27_SweepRemovesExactlyStale ==
    [][ (rres'.op = "none" /\ now' = now)
        => /\ DOMAIN retryMetadata' \subseteq DOMAIN retryMetadata
           /\ \A id \in DOMAIN retryMetadata :
                IF now - retryMetadata[id].lastAttempt > RetryHorizonMs
                THEN ~Has(retryMetadata', id)
                ELSE Has(retryMetadata', id) /\ retryMetadata'[id] = retryMetadata[id]
      ]_vars

C27_Witness ==
    /\ rres.op = "none"
    /\ cres.op = "sweep"
    /\ ~Has(retryMetadata, "op1")
    /\ retryHist["op1"].swept
    /\ retryHist["op1"].lastN = 1
    /\ Has(retryMetadata, "op2")
    /\ retryMetadata["op2"].attempts = 1
    /\ now - retryMetadata["op2"].lastAttempt > 0

\* C28: every batch_operation call with concurrency >= 1 eventually completes,
\* and the scheduling loop is left exactly when the queue is empty and no
\* operation is in flight: it is never left with work remaining, and it is
\* always left when none remains.
C28_LoopEndsExactlyWhenDrained ==
    /\ (bpc = "loop" /\ bargs.concurrency >= 1) ~> (bpc \in {"returned", "failed"})
    /\ [][ /\ ((/\ bpc \in {"loop", "await"}
                 /\ bpc' \in {"returned", "failed"}
                 /\ bargs.concurrency >= 1)
                => ~MoreToDo(queue', Len(inProgress')))
            /\ ((bpc = "loop" /\ ~MoreToDo(queue, Len(inProgress)))
                => bpc' = "returned") ]_vars

\* the first half of C28 alone: the call always ends, by return or by throw
C28_CallEnds ==
    (bpc = "loop" /\ bargs.concurrency >= 1) ~> (bpc \in {"returned", "failed"})

\* the (type, serialized data) key of an operation, written out
TypeDataKey(op) == <<"batch", Colon>> \o op.type \o <<Colon, "{", op.data, "}">>

\* a live entry exists under the operation's key
LiveEntry(op) ==
    /\ Has(cache, TypeDataKey(op))
    /\ cache[TypeDataKey(op)].expiresAt > now

\* C29: with use_cache, an operation taken from the queue while a live entry
\* exists under its (type, serialized data) key is recorded as a cached
\* success carrying the cached value and its work is not started; one taken
\* without a live entry is started; and when its work ends in success the
\* result is stored under that key with expiry now + cache_ttl_seconds, so
\* that a later batch with the same type and data is served from the cache.
C29_CacheShortCircuitsAndStores ==
    [][ /\ ((/\ bpc = "loop"
             /\ queue # <<>>
             /\ queue' = Tail(queue)
             /\ bargs.use_cache)
            => IF LiveEntry(Head(queue))
               THEN /\ results' = Append(results,
                                     [id |-> Head(queue).id, success |-> TRUE,
                                      cached |-> TRUE,
                                      result |-> cache[TypeDataKey(Head(queue))].value])
                    /\ UNCHANGED <<workAt, timeoutAt, promise, inProgress>>
               ELSE /\ workAt'[Head(queue).id] >= now
                    /\ promise'[Head(queue).id] = "pending"
                    /\ inProgress' = Append(inProgress, Head(queue).id)
                    /\ results' = results)
        /\ \A id \in BatchIds :
             (/\ bargs.use_cache
              /\ promise[id] = "pending"
              /\ promise'[id] = "fulfilled")
             => /\ Has(cache', TypeDataKey(OpOf(id)))
                /\ cache'[TypeDataKey(OpOf(id))].value = <<id>> \o OpOf(id).type \o <<OpOf(id).data>>
                /\ cache'[TypeDataKey(OpOf(id))].expiresAt
                     = now' + bargs.cache_ttl_seconds * 1000 ]_vars

\* a second batch serves operation "a" from the entry the first batch stored
C29_Witness ==
    /\ ncalls = 1
    /\ bargs.use_cache
    /\ bpc = "returned"
    /\ \E i \in DOMAIN bout.results :
         /\ bout.results[i].id = "a"
         /\ bout.results[i].cached
         /\ bout.results[i].success
         /\ bout.results[i].result = <<"a", "t", "d1">>
    /\ \E i \in DOMAIN bout.results :
         /\ bout.results[i].id = "b"
         /\ ~bout.results[i].cached
         /\ bout.results[i].success

\* the count of the resource's current window as a check finds it: a missing
\* or expired window counts as a new one with count 0
WindowCount(resource) ==
    IF Has(rateLimits, resource) /\ rateLimits[resource].resetAt > now
    THEN rateLimits[resource].count
    ELSE 0

\* C30: a rate-limit check is allowed iff the window's count < max_requests;
\* the count grows by exactly 1 iff the check is allowed and increment is
\* true; a denied check, and any check with increment false, leaves the
\* window's count as it was.
C30_AllowedIffBelowMaxAndCounts ==
    [][ lres'.op = "rate_limit_check"
        => /\ lres'.allowed <=> (WindowCount(lres'.resource) < lres'.max_requests)
           /\ rateLimits'[lres'.resource].count
                = IF lres'.allowed /\ lres'.increment
                  THEN WindowCount(lres'.resource) + 1
                  ELSE WindowCount(lres'.resource)
           /\ lres'.current_count = rateLimits'[lres'.resource].count ]_vars

C30_Witness ==
    /\ lres.op = "rate_limit_check"
    /\ ~lres.allowed
    /\ lres.increment
    /\ lres.max_requests = 2
    /\ rateLimits[lres.resource].count = 2
    /\ rateLimits[lres.resource].resetAt > now

C30_WitnessNoIncrement ==
    /\ lres.op = "rate_limit_check"
    /\ lres.allowed
    /\ ~lres.increment
    /\ lres.max_requests = 2
    /\ rateLimits[lres.resource].count = 1

\* C31: a check replaces the resource's window (count from 0, resetAt = now +
\* window_seconds) exactly when the resource has no window or now >= resetAt;
\* while now < resetAt a check leaves resetAt alone, whatever window_seconds
\* it passes.
C31_WindowReplacedIffDue ==
    [][ lres'.op = "rate_limit_check"
        => IF \/ ~Has(rateLimits, lres'.resource)
              \/ now >= rateLimits[lres'.resource].resetAt
           THEN /\ rateLimits'[lres'.resource].resetAt
                     = now + lres'.window_seconds * 1000
                /\ rateLimits'[lres'.resource].count
                     = IF lres'.allowed /\ lres'.increment THEN 1 ELSE 0
           ELSE /\ rateLimits'[lres'.resource].resetAt
                     = rateLimits[lres'.resource].resetAt
                /\ rateLimits'[lres'.resource].count
                     >= rateLimits[lres'.resource].count ]_vars

\* a check passing window_seconds 2 inside a window opened with 1
C31_Witness ==
    /\ lres.op = "rate_limit_check"
    /\ lres.window_seconds = 2
    /\ rateHist[lres.resource].windows = 1
    /\ rateHist[lres.resource].argsWin = -2
    /\ now = 500
    /\ rateLimits[lres.resource].resetAt = 1000

\* a check arriving exactly at resetAt opens a new window
C31_WitnessBoundary ==
    /\ lres.op = "rate_limit_check"
    /\ rateHist[lres.resource].windows = 2
    /\ now = 1000
    /\ rateLimits[lres.resource].resetAt = now + lres.window_seconds * 1000

\* the allowed increment=true checks answered since the resource's current
\* window was created
GrantsInWindow(resource) ==
    SelectSeq(rateHist[resource].grants,
              LAMBDA t : t >= rateHist[resource].opened)

\* C32: for a resource always checked with the same max_requests = n, the
\* window count never exceeds n, and at most n increment=true checks are
\* allowed between the creation of a window and its resetAt.
C32_AtMostMaxPerWindow ==
    \A r \in Resources :
       (Has(rateLimits, r) /\ rateHist[r].argsMax >= 0)
       => /\ rateLimits[r].count =< rateHist[r].argsMax
          /\ Len(GrantsInWindow(r)) =< rateHist[r].argsMax
          /\ \A i \in DOMAIN GrantsInWindow(r) :
               GrantsInWindow(r)[i] < rateLimits[r].resetAt

\* the third increment=true check of a window with max_requests 2 is denied
C32_Witness ==
    /\ lres.op = "rate_limit_check"
    /\ lres.increment
    /\ ~lres.allowed
    /\ rateHist[lres.resource].argsMax = 2
    /\ Len(GrantsInWindow(lres.resource)) = 2
    /\ rateHist[lres.resource].windows = 2
    /\ now < rateLimits[lres.resource].resetAt

\* C33: whatever batch_operation is doing in between, the attempt numbers
\* handed out by execute_attempt for an operation id are 1, 2, 3, ...: each is
\* one more than the number handed out before, as long as the sweep has not
\* removed the id's entry.
C33_AttemptNumbersConsecutive ==
    [][ (/\ retryMetadata' # retryMetadata
         /\ rres'.op = "retry_operation"
         /\ ~retryHist[rres'.operation_id].swept)
        => /\ rres'.status = "execute_attempt"
           /\ rres'.attempts = retryHist[rres'.operation_id].lastN + 1
           /\ retryMetadata'[rres'.operation_id].attempts = rres'.attempts
           /\ UNCHANGED batchVars ]_vars

\* attempt 2 is handed out while the batch handler is suspended with work in
\* flight
C33_Witness ==
    /\ rres.op = "retry_operation"
    /\ rres.status = "execute_attempt"
    /\ rres.attempts = 2
    /\ ~retryHist[rres.operation_id].swept
    /\ bpc = "await"
    /\ Len(inProgress) > 0
    /\ now = retryHist[rres.operation_id].lastAt

\* C34: with use_cache, the work of an operation whose race has been lost to
\* the timeout (its batch result is a timeout failure) never writes the
\* cache, neither while the call runs nor after it has ended.
C34_TimedOutWorkWritesNothing ==
    [][ \A id \in BatchIds :
          (/\ bargs.use_cache
           /\ promise[id] = "rejected"
           /\ workAt[id] >= 0
           /\ workAt'[id] = -1)
          => (cache' = cache /\ lastPut' = lastPut) ]_vars

\* C35: whenever batch_operation returns a result, total_operations is the
\* number of input operations, results holds one non-null entry per input
\* operation, and successful + failed = total_operations, with
\* continue_on_error true and false.
C35_ReturnedCountsAddUp ==
    bpc = "returned"
    => /\ bout.total_operations = Len(bargs.operations)
       /\ Len(bout.results) = Len(bargs.operations)
       /\ \A i \in DOMAIN bargs.operations :
            /\ bout.results[i] # NullResult
            /\ bout.results[i].id = bargs.operations[i].id
       /\ bout.successful + bout.failed = bout.total_operations

C35_Witness ==
    /\ bpc = "returned"
    /\ ~bargs.continue_on_error
    /\ bargs.timeout_ms = 500
    /\ bargs.concurrency = 2
    /\ bout.total_operations = 3
    /\ bout.successful = 3
    /\ \E i \in DOMAIN bout.results : bout.results[i].cached

\* what cache_get({namespace, key}) would answer on store c at time t
GetAnswer(c, t, namespace, key) ==
    LET cacheKey == getCacheKey(key, Given(namespace))
    IN  IF Has(c, cacheKey) /\ ~(c[cacheKey].expiresAt =< t)
        THEN <<"found", c[cacheKey].value>>
        ELSE <<"miss">>

\* C36: distinct (namespace, key) pairs never share a cache entry: a
\* cache_put or cache_delete on one pair never changes what cache_get returns
\* for any other pair, also when keys or namespaces contain ':'.
C36_PairsNeverShareAnEntry ==
    [][ cres'.op \in {"cache_put", "cache_delete"}
        => \A n \in NamespaceStrings \cup {DefaultNamespace}, k \in Keys :
              (<<n, k>> # <<cres'.namespace, cres'.key>>)
              => GetAnswer(cache', now', n, k) = GetAnswer(cache, now, n, k) ]_vars

\* the cache keys under which batch_operation looks its operations up
BatchKeys == { TypeDataKey(BatchOp(id, d)) : id \in BatchIds, d \in {"d1", "d2"} }

\* C37: the entries of the batch runner are out of reach of the caller-facing
\* cache tools: no cache_put, cache_delete or cache_clear(namespace) creates,
\* replaces or removes an entry that batch_operation looks up, and no
\* cache_get finds one.
C37_BatchEntriesIsolated ==
    [][ /\ (cres'.op \in {"cache_put", "cache_delete", "cache_clear"}
            => \A ck \in BatchKeys :
                  /\ Has(cache', ck) <=> Has(cache, ck)
                  /\ Has(cache, ck) => cache'[ck] = cache[ck])
        /\ ((cres'.op = "cache_get" /\ cres'.found)
            => ReplyKey(cres') \notin BatchKeys) ]_vars

\* what the missing isolation allows: batch_operation reports as the cached
\* result of an operation a value that a caller stored with cache_put
C37_PoisonedResult ==
    /\ bpc = "returned"
    /\ \E i \in DOMAIN bout.results :
         /\ bout.results[i].cached
         /\ bout.results[i].result \in SharedValues

C38_ExecutionsAndDoubling ==
    legacy.pc = "thrown"
    => /\ legacy.executions = legacy.max_retries + 1
       /\ Len(legacy.waits) = legacy.max_retries
       /\ ~legacy.jitter
            => /\ legacy.waits[1] = Min(2 * legacy.initial_delay_ms, legacy.max_delay_ms)
               /\ \A i \in 2..Len(legacy.waits) :
                    legacy.waits[i] = Min(2 * legacy.waits[i - 1], legacy.max_delay_ms)
               /\ \A i \in DOMAIN legacy.waits : legacy.waits[i] =< legacy.max_delay_ms

\* the first wait when jitter is off
C38_FirstWaitIsInitialDelay ==
    (legacy.pc = "thrown" /\ ~legacy.jitter)
    => legacy.waits[1] = Min(legacy.initial_delay_ms, legacy.max_delay_ms)

\* the cap, jitter included
C38_NoWaitBeyondMaxDelay ==
    \A i \in DOMAIN legacy.waits : legacy.waits[i] =< legacy.max_delay_ms

====
